---- MODULE Spec2Model ----
(***************************************************************************)
(* Model of mpl_ext/raincloud/_raincloud.py: the two entry points          *)
(* pyplot_cloud and pyplot_raincloud.  One call is a run of the state      *)
(* machine: group extraction, scale resolution, the box draw, the violin   *)
(* draw, then one loop iteration per violin body (the half-violin          *)
(* transform, and for pyplot_raincloud the jittered scatter).  The axes    *)
(* object is the log of the draw calls it received.                        *)
(***************************************************************************)
EXTENDS Integers, Sequences, FiniteSets, TLC

VARIABLES
    args,         \* the arguments of the call (never assigned by the code)
    pc,           \* position in the function body
    label_names,  \* local label_names
    plot_data,    \* local plot_data
    scalars,      \* local scalars
    ax,           \* the draw calls the Axes received, in order
    idx,          \* loop counter of zip(count(), scalars, vp['bodies'])
    body,         \* vertices of the body the loop last handled: before, after
    err           \* the exception that ended the call, or NoError

vars == <<args, pc, label_names, plot_data, scalars, ax, idx, body, err>>

----------------------------------------------------------------------------
(* Bounds of the explored inputs.                                          *)

\* Longest table (number of rows of df).
MaxRows == 3
\* Vertices of one violin body's polygon.
MaxVerts == 1

----------------------------------------------------------------------------
(* Python values.  Arguments are dynamically typed: a value carries the    *)
(* type the isinstance / callable tests of the code look at.               *)

None == [kind |-> "none", val |-> "None"]
Str(s) == [kind |-> "str", val |-> s]
Dict(f) == [kind |-> "dict", val |-> f]
Callable(f) == [kind |-> "callable", val |-> f]
PyInt(n) == [kind |-> "int", val |-> n]

IsNone(v) == v.kind = "none"
IsDict(v) == v.kind = "dict"
IsCallable(v) == v.kind = "callable"
\* Python == between two argument values.
PyEq(a, b) == a.kind = b.kind /\ a.val = b.val

\* The empty dict: a function with no keys.
EmptyDict == [k \in {} |-> 0]

----------------------------------------------------------------------------
(* Numbers that are not integers are exact rationals n/d, d > 0, in lowest *)
(* terms, so that equal numbers are equal values.                          *)

Abs(n) == IF n < 0 THEN -n ELSE n

RECURSIVE GCD(_, _)
GCD(a, b) == IF b = 0 THEN a ELSE GCD(b, a % b)

Rat(n, d) ==
    LET g == GCD(Abs(n), d)
    IN  [n |-> n \div g, d |-> d \div g]

RInt(n) == [n |-> n, d |-> 1]
RAdd(p, q) == Rat(p.n * q.d + q.n * p.d, p.d * q.d)
RSub(p, q) == Rat(p.n * q.d - q.n * p.d, p.d * q.d)
RMul(p, q) == Rat(p.n * q.n, p.d * q.d)
RLt(p, q) == p.n * q.d < q.n * p.d
RLeq(p, q) == p.n * q.d <= q.n * p.d

----------------------------------------------------------------------------
(* Sequences.                                                              *)

Reverse(s) == [i \in 1..Len(s) |-> s[Len(s) + 1 - i]]

SeqsUpTo(S, n) == UNION {[1..k -> S] : k \in 0..n}

Range(s) == {s[i] : i \in DOMAIN s}

----------------------------------------------------------------------------
(* The table df.  Column "g" holds the category labels, column "x" the     *)
(* numbers; row i of the value column holds RowValue(i), so that every row *)
(* is recognisable in a data list and the column is not monotone.          *)

Labels == {"a", "b", "c"}
col == "x"
group_col == "g"

RowValue(i) == IF i % 2 = 1 THEN i + 1 ELSE i - 1

Tables == {[i \in DOMAIN ls |-> [g |-> ls[i], x |-> RowValue(i)]] :
              ls \in SeqsUpTo(Labels, MaxRows)}

\* df[col].tolist()
ColumnToList(df) == [i \in DOMAIN df |-> df[i].x]

\* Order of str values under Python's <.
StrRank(s) == CASE s = "a" -> 1 [] s = "b" -> 2 [] s = "c" -> 3 [] s = "x" -> 4
                [] OTHER -> 5

----------------------------------------------------------------------------
(* Exceptions.                                                             *)

NoError == [type |-> "none", msg |-> "", value |-> None]
ValueError(m, v) == [type |-> "ValueError", msg |-> m, value |-> v]
KeyError(k) == [type |-> "KeyError", msg |-> "", value |-> Str(k)]

----------------------------------------------------------------------------
(* Group extraction (pyplot_cloud lines 136-188, pyplot_raincloud lines    *)
(* 410-462: the same text).                                                *)

\* The distinct labels of rows i.. of df that are not in seen, first-seen order.
RECURSIVE Discover(_, _, _)
Discover(df, i, seen) ==
    IF i > Len(df) THEN <<>>
    ELSE IF df[i].g \in seen THEN Discover(df, i + 1, seen)
    ELSE <<df[i].g>> \o Discover(df, i + 1, seen \cup {df[i].g})

\* df.groupby(by = group_by, sort = False).groups.items(): per category, in
\* first-seen order, the index of its rows in row order.
GroupItems(df) ==
    LET cats == Discover(df, 1, {})
        rows == [i \in 1..Len(df) |-> i]
    IN  [k \in DOMAIN cats |->
            [cat |-> cats[k],
             idx_vals |-> SelectSeq(rows, LAMBDA i : df[i].g = cats[k])]]

\* df.loc[idx_vals, col].tolist()
LocToList(df, idx_vals) == [k \in DOMAIN idx_vals |-> df[idx_vals[k]].x]

\* Series(df.loc[idx_vals, col], name = cat), one per category.
SeriesOf(df) ==
    LET items == GroupItems(df)
    IN  [k \in DOMAIN items |->
            [name |-> items[k].cat, values |-> LocToList(df, items[k].idx_vals)]]

RECURSIVE SumSeq(_)
SumSeq(s) == IF s = <<>> THEN 0 ELSE Head(s) + SumSeq(Tail(s))

\* A callable group_order applied to one category's Series.
Apply(f, series) ==
    CASE f = "len" -> Len(series.values)
      [] f = "sum" -> SumSeq(series.values)

\* Before for a sort that is not stable: equal keys change places.
BeforeOrEqual(a, b, rev) == IF rev THEN a.k >= b.k ELSE a.k <= b.k

\* Whether a sorts strictly before b: ascending keys, descending when reverse.
Before(a, b, rev) == IF rev THEN a.k > b.k ELSE a.k < b.k

\* One step of the stable sort: e goes behind every element it is not
\* strictly before.
RECURSIVE Insert(_, _, _)
Insert(done, e, rev) ==
    IF done = <<>> THEN <<e>>
    ELSE IF Before(e, Head(done), rev) THEN <<e>> \o done
    ELSE <<Head(done)>> \o Insert(Tail(done), e, rev)

RECURSIVE SortPrefix(_, _, _)
SortPrefix(pairs, n, rev) ==
    IF n = 0 THEN <<>> ELSE Insert(SortPrefix(pairs, n - 1, rev), pairs[n], rev)

\* sorted(els, key = ..., reverse = rev), keys[i] the key of els[i]: Python's
\* sort is stable, also with reverse = True.
PySorted(els, keys, rev) ==
    LET pairs == [i \in DOMAIN els |-> [k |-> keys[i], v |-> els[i]]]
        out == SortPrefix(pairs, Len(pairs), rev)
    IN  [i \in DOMAIN out |-> out[i].v]

\* The first element of seq outside S ("" when there is none).
RECURSIVE FirstOutside(_, _)
FirstOutside(seq, S) ==
    IF seq = <<>> THEN ""
    ELSE IF Head(seq) \notin S THEN Head(seq)
    ELSE FirstOutside(Tail(seq), S)

Extracted(labels, data) ==
    [label_names |-> labels, plot_data |-> data, err |-> NoError]
ExtractFailed(e) == [label_names |-> <<>>, plot_data |-> <<>>, err |-> e]

\* group_order is None: the dict of the groups, its keys and its values.
ExtractUnordered(df) ==
    LET series == SeriesOf(df)
    IN  Extracted([k \in DOMAIN series |-> series[k].name],
                  [k \in DOMAIN series |-> series[k].values])

\* group_order is a dict: sorted(..., key = lambda el: group_order[el.name]).
ExtractByDict(df, order, rev) ==
    LET series == SeriesOf(df)
        names == [k \in DOMAIN series |-> series[k].name]
    IN  IF \E k \in DOMAIN names : names[k] \notin DOMAIN order
        THEN ExtractFailed(KeyError(FirstOutside(names, DOMAIN order)))
        ELSE LET out == PySorted(series, [k \in DOMAIN series |-> order[names[k]]], rev)
             IN  Extracted([k \in DOMAIN out |-> out[k].name],
                           [k \in DOMAIN out |-> out[k].values])

\* ExtractByLabel with the labels sorted and the data lists left in the
\* order of the dict.
ExtractByLabelDataUnsorted(df, rev) ==
    LET series == SeriesOf(df)
        names == [k \in DOMAIN series |-> series[k].name]
    IN  [label_names |->
             PySorted(names, [k \in DOMAIN names |-> StrRank(names[k])], rev),
         plot_data |-> [k \in DOMAIN series |-> series[k].values],
         err |-> NoError]

\* group_order == group_by: sorted(plot_data.keys(), reverse = reverse), then
\* the data looked up by label.
ExtractByLabel(df, rev) ==
    LET series == SeriesOf(df)
        names == [k \in DOMAIN series |-> series[k].name]
        labels == PySorted(names, [k \in DOMAIN names |-> StrRank(names[k])], rev)
        DataOf(l) == (CHOOSE k \in DOMAIN series : series[k].name = l)
    IN  Extracted(labels, [k \in DOMAIN labels |-> series[DataOf(labels[k])].values])

\* group_order is callable: sorted(..., key = group_order).
ExtractByCallable(df, f, rev) ==
    LET series == SeriesOf(df)
        out == PySorted(series, [k \in DOMAIN series |-> Apply(f, series[k])], rev)
    IN  Extracted([k \in DOMAIN out |-> out[k].name],
                  [k \in DOMAIN out |-> out[k].values])

\* Lines 136-188: the label sequence and the data-list sequence, or the error.
GroupExtractor(a) ==
    IF IsNone(a.group_by)
    THEN Extracted(<<col>>, <<ColumnToList(a.df)>>)
    ELSE IF IsNone(a.group_order) THEN ExtractUnordered(a.df)
    ELSE IF IsDict(a.group_order)
         THEN ExtractByDict(a.df, a.group_order.val, a.reverse)
    ELSE IF PyEq(a.group_order, a.group_by) THEN ExtractByLabel(a.df, a.reverse)
    ELSE IF IsCallable(a.group_order)
         THEN ExtractByCallable(a.df, a.group_order.val, a.reverse)
    ELSE ExtractFailed(ValueError("group_order arg not recognised as valid",
                                  a.group_order))

----------------------------------------------------------------------------
(* Scale resolution (lines 190-215, 464-489).                              *)

RECURSIVE MaxLen(_)
MaxLen(data) ==
    IF Len(data) = 1 THEN Len(data[1])
    ELSE LET m == MaxLen(Tail(data))
         IN  IF Len(Head(data)) >= m THEN Len(Head(data)) ELSE m

\* ScaleMax with the floor division len(el) // m.
ScaleMaxFloorDiv(data) ==
    LET m == MaxLen(data)
    IN  [i \in DOMAIN data |->
            IF Len(data[i]) = m THEN RInt(1) ELSE RInt(Len(data[i]) \div m)]

\* scale_clouds == 'max': 1 for a largest group, len(el)/m for the others.
ScaleMax(data) ==
    LET m == MaxLen(data)
    IN  [i \in DOMAIN data |->
            IF Len(data[i]) = m THEN RInt(1) ELSE Rat(Len(data[i]), m)]

\* ErrVals stopping at the first entry found out of range.
ErrValsFirstOnly(scale) ==
    LET bad == {k \in DOMAIN scale :
                   RLt(scale[k], RInt(0)) \/ RLt(RInt(1), scale[k])}
        first == IF bad = {} THEN {}
                 ELSE {CHOOSE k \in bad : \A o \in bad : StrRank(k) <= StrRank(o)}
    IN  [k \in first |-> scale[k]]

\* The entries of the dict with v < 0 or v > 1.
ErrVals(scale) ==
    LET bad == {k \in DOMAIN scale :
                   RLt(scale[k], RInt(0)) \/ RLt(RInt(1), scale[k])}
    IN  [k \in bad |-> scale[k]]

Scaled(s) == [scalars |-> s, err |-> NoError]
ScaleFailed(e) == [scalars |-> <<>>, err |-> e]

ScaleResolver(scale_clouds, labels, data) ==
    IF IsNone(scale_clouds) THEN Scaled([i \in DOMAIN data |-> RInt(1)])
    ELSE IF PyEq(scale_clouds, Str("max"))
         THEN IF data = <<>>
              THEN ScaleFailed(ValueError("max() arg is an empty sequence", None))
              ELSE Scaled(ScaleMax(data))
    ELSE IF IsDict(scale_clouds)
         THEN IF DOMAIN ErrVals(scale_clouds.val) # {}
              THEN ScaleFailed(ValueError("Some scalar values are out of bounds.",
                                          Dict(ErrVals(scale_clouds.val))))
              ELSE IF \E i \in DOMAIN labels : labels[i] \notin DOMAIN scale_clouds.val
              THEN ScaleFailed(KeyError(FirstOutside(labels, DOMAIN scale_clouds.val)))
              ELSE Scaled([i \in DOMAIN labels |-> scale_clouds.val[labels[i]]])
    ELSE ScaleFailed(ValueError("scale_clouds arg not recognised as valid",
                                scale_clouds))

----------------------------------------------------------------------------
(* Option mappings of the two draw calls (lines 217-287, 491-557).         *)

\* Merge with the precedence the wrong way round: the former wins.
MergeFormerWins(lo, hi) ==
    [k \in DOMAIN lo \cup DOMAIN hi |-> IF k \in DOMAIN lo THEN lo[k] ELSE hi[k]]

\* {**lo, **hi}: the latter takes precedence over the former.
Merge(lo, hi) ==
    [k \in DOMAIN lo \cup DOMAIN hi |-> IF k \in DOMAIN hi THEN hi[k] ELSE lo[k]]

Black == [color |-> "Black"]

BoxDefaults ==
    [widths |-> Rat(2, 10), showfliers |-> FALSE, showmeans |-> TRUE,
     meanline |-> TRUE, medianprops |-> Black, boxprops |-> Black]

BoxComputed(labels, data, vert) == [labels |-> labels, x |-> data, vert |-> vert]

\* The keyword arguments of ax.boxplot; box_kwargs is None or a dict.
BoxKwargs(box_kwargs, labels, data, vert) ==
    IF IsNone(box_kwargs)
    THEN [labels |-> labels, x |-> data, vert |-> vert,
          widths |-> Rat(2, 10), showfliers |-> FALSE, showmeans |-> TRUE,
          meanline |-> TRUE, medianprops |-> Black, boxprops |-> Black]
    ELSE Merge(Merge(BoxDefaults, box_kwargs.val), BoxComputed(labels, data, vert))

CloudDefaults ==
    [showmeans |-> FALSE, showmedians |-> FALSE, showextrema |-> FALSE,
     widths |-> Rat(12, 10)]

CloudComputed(data, vert) == [dataset |-> data, vert |-> vert]

\* The keyword arguments of ax.violinplot in pyplot_cloud (lines 257-282).
CloudViolinKwargs(cloud_kwargs, data, vert) ==
    IF IsNone(cloud_kwargs)
    THEN [dataset |-> data, vert |-> vert, showmeans |-> FALSE,
          showmedians |-> FALSE, showextrema |-> FALSE, widths |-> Rat(12, 10)]
    ELSE Merge(Merge(CloudDefaults, cloud_kwargs.val), CloudComputed(data, vert))

\* The keyword arguments of ax.violinplot in pyplot_raincloud (lines 531-552).
RaincloudViolinKwargs(cloud_kwargs, data, vert) ==
    IF IsNone(cloud_kwargs)
    THEN [dataset |-> data, vert |-> vert]
    ELSE Merge(Merge(CloudDefaults, cloud_kwargs.val), CloudComputed(data, vert))

ViolinKwargs(fn, cloud_kwargs, data, vert) ==
    IF fn = "pyplot_cloud" THEN CloudViolinKwargs(cloud_kwargs, data, vert)
    ELSE RaincloudViolinKwargs(cloud_kwargs, data, vert)

DrawCall(op, kwargs) == [op |-> op, kwargs |-> kwargs]

----------------------------------------------------------------------------
(* The violin bodies and the loop over them (lines 289-301, 559-589).      *)

\* A vertex is <<x, y>>; vertices[:, 1] is the y column.
XCol == 1
YCol == 2

\* Where matplotlib puts a violin: the groups sit at positions 1, 2, ... of
\* the y axis when vert is False and of the x axis when vert is True; the
\* other axis carries the values.
DensityAxis(vert) == IF vert THEN XCol ELSE YCol
ValueAxis(vert) == IF vert THEN YCol ELSE XCol

\* Offsets of a polygon's density coordinates from its position.
DensityOffsets == {Rat(-1, 2), RInt(0), Rat(1, 2)}

\* The polygons ax.violinplot may hand back for the group at zero-based
\* position i: the density coordinates lie around i + 1, the value
\* coordinates within the group's data.
Polygons(data, i, vert) ==
    IF data = <<>> THEN {<<>>}
    ELSE LET vertex == {IF vert THEN <<RAdd(RInt(i + 1), o), RInt(v)>>
                                ELSE <<RInt(v), RAdd(RInt(i + 1), o)>> :
                            o \in DensityOffsets, v \in Range(data)}
         IN  [1..MaxVerts -> vertex]

\* Lines 292-301: the y column of the vertices rewritten in place.
HalfViolin(vertices, i, scale) ==
    [k \in DOMAIN vertices |->
        LET width_val == vertices[k][YCol]
            scaled == RMul(scale,
                           IF RLeq(width_val, RInt(i + 1)) THEN RInt(0)
                           ELSE RSub(RSub(width_val, RInt(i)), RInt(1)))
        IN  [vertices[k] EXCEPT ![YCol] = RAdd(RAdd(scaled, RInt(i)), RInt(1))]]

\* uniform(low = -0.15, high = 0.15): the draws explored.
JitterDraws == {Rat(-15, 100), Rat(10, 100)}

\* Lines 576-589: jitter += idx + 0.75, then ax.scatter.
ScatterKwargs(data, i, jitter) ==
    [x |-> data,
     y |-> [k \in DOMAIN jitter |-> RAdd(jitter[k], RAdd(RInt(i), Rat(75, 100)))],
     s |-> Rat(3, 10),
     c |-> [facecolor_of_body |-> i]]

----------------------------------------------------------------------------
(* The calls explored.  Each family gives the arguments one stage reads    *)
(* their whole range and holds the arguments of the other stages to a few  *)
(* values.                                                                 *)

Functions == {"pyplot_cloud", "pyplot_raincloud"}

GroupBys == {None, Str(group_col)}

GroupOrders ==
    {None, Str(group_col), Str("h"),
     Dict([a |-> 2, b |-> 1, c |-> 1]), Dict([a |-> 1, b |-> 2]),
     Callable("len"), Callable("sum")}

ScaleModes ==
    {None, Str("max"), Str("min"),
     Dict([a |-> Rat(1, 2), b |-> RInt(1), c |-> RInt(0), x |-> Rat(1, 2)]),
     Dict([a |-> Rat(3, 2), b |-> Rat(-1, 2), c |-> Rat(1, 2), x |-> RInt(1)]),
     Dict([a |-> RInt(1), x |-> Rat(3, 2)]),
     Dict([a |-> Rat(1, 2)])}

BoxOverrides ==
    {None, PyInt(5), Dict(EmptyDict),
     Dict([widths |-> Rat(1, 2), patch_artist |-> TRUE]),
     Dict([labels |-> <<"caller">>, x |-> <<<<9>>>>, vert |-> TRUE,
           showmeans |-> FALSE])}

CloudOverrides ==
    {None, PyInt(5), Dict(EmptyDict),
     Dict([widths |-> Rat(1, 2), showmeans |-> TRUE]),
     Dict([dataset |-> <<<<9>>>>, vert |-> TRUE, points |-> 50])}

ShortTables == {t \in Tables : Len(t) = 2}

Call(fn, df, gb, go, rev, sc, vert, bk, ck) ==
    [fn |-> fn, df |-> df, group_by |-> gb, group_order |-> go, reverse |-> rev,
     scale_clouds |-> sc, vert |-> vert, box_kwargs |-> bk, cloud_kwargs |-> ck]

OrderingCalls ==
    {Call("pyplot_cloud", df, gb, go, rev, None, FALSE, None, None) :
        df \in Tables, gb \in GroupBys, go \in GroupOrders, rev \in BOOLEAN}

ScalingCalls ==
    {Call("pyplot_cloud", df, gb, go, FALSE, sc, FALSE, None, None) :
        df \in Tables, gb \in GroupBys,
        go \in {None, Str(group_col), Dict([a |-> 1, b |-> 2])},
        sc \in ScaleModes}

OverrideCalls ==
    {Call(fn, df, Str(group_col), None, FALSE, None, vert, bk, ck) :
        fn \in Functions, df \in ShortTables, vert \in BOOLEAN,
        bk \in BoxOverrides, ck \in CloudOverrides}

TransformCalls ==
    {Call(fn, df, Str(group_col), None, FALSE, sc, vert, None, None) :
        fn \in Functions, df \in ShortTables, vert \in BOOLEAN, sc \in ScaleModes}

Calls == OrderingCalls \cup ScalingCalls \cup OverrideCalls \cup TransformCalls

----------------------------------------------------------------------------
(* The state machine of one call.                                          *)

NoBody == [before |-> <<>>, after |-> <<>>]

Init ==
    /\ args \in Calls
    /\ pc = "extract"
    /\ label_names = <<>>
    /\ plot_data = <<>>
    /\ scalars = <<>>
    /\ ax = <<>>
    /\ idx = 0
    /\ body = NoBody
    /\ err = NoError

\* Lines 136-188.
ExtractGroups ==
    /\ pc = "extract"
    /\ LET r == GroupExtractor(args)
       IN  /\ label_names' = r.label_names
           /\ plot_data' = r.plot_data
           /\ err' = r.err
           /\ pc' = IF r.err = NoError THEN "scale" ELSE "raised"
    /\ UNCHANGED <<args, scalars, ax, idx, body>>

\* Lines 190-215.
ResolveScalars ==
    /\ pc = "scale"
    /\ LET r == ScaleResolver(args.scale_clouds, label_names, plot_data)
       IN  /\ scalars' = r.scalars
           /\ err' = r.err
           /\ pc' = IF r.err = NoError THEN "box" ELSE "raised"
    /\ UNCHANGED <<args, label_names, plot_data, ax, idx, body>>

\* Lines 217-254.
BuildBox ==
    /\ pc = "box"
    /\ IF IsNone(args.box_kwargs) \/ IsDict(args.box_kwargs)
       THEN /\ ax' = Append(ax, DrawCall("boxplot",
                        BoxKwargs(args.box_kwargs, label_names, plot_data, args.vert)))
            /\ pc' = "violin"
            /\ err' = err
       ELSE /\ err' = ValueError("box_kwargs arg not recognised as valid",
                                 args.box_kwargs)
            /\ pc' = "raised"
            /\ ax' = ax
    /\ UNCHANGED <<args, label_names, plot_data, scalars, idx, body>>

\* Lines 256-287.
BuildViolin ==
    /\ pc = "violin"
    /\ IF IsNone(args.cloud_kwargs) \/ IsDict(args.cloud_kwargs)
       THEN /\ ax' = Append(ax, DrawCall("violinplot",
                        ViolinKwargs(args.fn, args.cloud_kwargs, plot_data, args.vert)))
            /\ pc' = "loop"
            /\ err' = err
       ELSE /\ err' = ValueError("cloud_kwargs arg not recognised as valid",
                                 args.cloud_kwargs)
            /\ pc' = "raised"
            /\ ax' = ax
    /\ UNCHANGED <<args, label_names, plot_data, scalars, idx, body>>

\* One iteration of the loop of lines 289-301 (pyplot_cloud) or 561-589
\* (pyplot_raincloud) on the body at position idx.
LoopBody ==
    /\ pc = "loop"
    /\ idx < Len(scalars)
    /\ \E vertices \in Polygons(plot_data[idx + 1], idx, args.vert) :
          body' = [before |-> vertices,
                   after |-> HalfViolin(vertices, idx, scalars[idx + 1])]
    /\ IF args.fn = "pyplot_raincloud"
       THEN \E jitter \in [DOMAIN plot_data[idx + 1] -> JitterDraws] :
               ax' = Append(ax, DrawCall("scatter",
                                ScatterKwargs(plot_data[idx + 1], idx, jitter)))
       ELSE ax' = ax
    /\ idx' = idx + 1
    /\ UNCHANGED <<args, pc, label_names, plot_data, scalars, err>>

\* Lines 303 and 591.
Return ==
    /\ pc = "loop"
    /\ idx = Len(scalars)
    /\ pc' = "returned"
    /\ UNCHANGED <<args, label_names, plot_data, scalars, ax, idx, body, err>>

Next ==
    \/ ExtractGroups
    \/ ResolveScalars
    \/ BuildBox
    \/ BuildViolin
    \/ LoopBody
    \/ Return

Spec == Init /\ [][Next]_vars

----------------------------------------------------------------------------
(* What the claims speak of, stated on the table itself.                   *)

\* The call is past group extraction / past scale resolution.
PastExtraction == pc \in {"scale", "box", "violin", "loop", "returned"}
PastScaling == pc \in {"box", "violin", "loop", "returned"}

Grouped == ~IsNone(args.group_by)

\* The categories of the table and, per category, its first row and its
\* value-column entries in row order.
Categories == {args.df[i].g : i \in DOMAIN args.df}
FirstRow(l) ==
    CHOOSE i \in DOMAIN args.df :
        args.df[i].g = l /\ \A j \in 1..(i - 1) : args.df[j].g # l
RowsOf(l) ==
    LET rows == SelectSeq(args.df, LAMBDA r : r.g = l)
    IN  [k \in DOMAIN rows |-> rows[k].x]

\* The sort key of a category under the ordering mode of the call.
KeyOf(l) ==
    IF IsNone(args.group_order) THEN 0
    ELSE IF IsDict(args.group_order) THEN args.group_order.val[l]
    ELSE IF IsCallable(args.group_order)
         THEN Apply(args.group_order.val, [name |-> l, values |-> RowsOf(l)])
    ELSE StrRank(l)

InUnitInterval(q) == 0 <= q.n /\ q.n <= q.d

\* The draw calls of one kind the axes received.
Draws(op) == {i \in DOMAIN ax : ax[i].op = op}

----------------------------------------------------------------------------
(* C1 *)

\* C1: for every ordering mode and every table with a group column, the
\* labels and the data lists produced with reverse = True are the exact
\* reversal of those produced with reverse = False on the same inputs, also
\* when ordering is absent and when two groups have equal sort keys.
C1_ReverseIsExactReversal ==
    (pc = "scale" /\ Grouped) =>
        LET other == GroupExtractor([args EXCEPT !.reverse = ~args.reverse])
        IN  /\ other.err = NoError
            /\ label_names = Reverse(other.label_names)
            /\ plot_data = Reverse(other.plot_data)

----------------------------------------------------------------------------
(* C2 *)

\* C2: in a call that ends in an error raised by the code (ordering value,
\* scaling mode, scale value out of range, label missing from the ordering
\* mapping, box or cloud override that is no mapping), no draw operation has
\* been invoked on the axes before the error is raised.
C2_NoDrawBeforeError == pc = "raised" => ax = <<>>

----------------------------------------------------------------------------
(* C3 *)

\* C3: pyplot_raincloud passes the violin draw call the option mapping
\* pyplot_cloud passes it for the same inputs; with no cloud override that is
\* showmeans, showmedians, showextrema False and widths 1.2 beside the
\* computed dataset and vert, the same options an empty override gives.
C3_SameViolinOptions ==
    \A i \in Draws("violinplot") :
        /\ ax[i].kwargs = CloudViolinKwargs(args.cloud_kwargs, plot_data, args.vert)
        /\ IsNone(args.cloud_kwargs) =>
              /\ ax[i].kwargs =
                    [dataset |-> plot_data, vert |-> args.vert,
                     showmeans |-> FALSE, showmedians |-> FALSE,
                     showextrema |-> FALSE, widths |-> Rat(12, 10)]
              /\ ax[i].kwargs =
                    ViolinKwargs(args.fn, Dict(EmptyDict), plot_data, args.vert)

----------------------------------------------------------------------------
(* C4 *)

\* The three layers: the computed value for a computed name, else the
\* caller's value for a name the caller gave, else the built-in default.
ThreeLayers(kwargs, defaults, override, computed) ==
    /\ DOMAIN kwargs = DOMAIN defaults \cup DOMAIN override \cup DOMAIN computed
    /\ \A k \in DOMAIN kwargs :
          kwargs[k] = IF k \in DOMAIN computed THEN computed[k]
                      ELSE IF k \in DOMAIN override THEN override[k]
                      ELSE defaults[k]

\* C4: for every override mapping of the caller, each option of the box draw
\* call is the computed value for labels, x and vert, else the caller's value
\* if the caller gave the name, else the built-in default; the same holds of
\* the violin draw call with the computed names dataset and vert.
C4_ThreeLayerPrecedence ==
    /\ IsDict(args.box_kwargs) =>
          \A i \in Draws("boxplot") :
              ThreeLayers(ax[i].kwargs,
                          [widths |-> Rat(2, 10), showfliers |-> FALSE,
                           showmeans |-> TRUE, meanline |-> TRUE,
                           medianprops |-> [color |-> "Black"],
                           boxprops |-> [color |-> "Black"]],
                          args.box_kwargs.val,
                          [labels |-> label_names, x |-> plot_data,
                           vert |-> args.vert])
    /\ IsDict(args.cloud_kwargs) =>
          \A i \in Draws("violinplot") :
              ThreeLayers(ax[i].kwargs,
                          [showmeans |-> FALSE, showmedians |-> FALSE,
                           showextrema |-> FALSE, widths |-> Rat(12, 10)],
                          args.cloud_kwargs.val,
                          [dataset |-> plot_data, vert |-> args.vert])

\* Both draws done with overrides that name computed options, a default and
\* an option of the caller's own.
C4_Witness ==
    /\ Draws("boxplot") # {} /\ Draws("violinplot") # {}
    /\ IsDict(args.box_kwargs) /\ IsDict(args.cloud_kwargs)
    /\ {"labels", "x", "vert", "showmeans"} \subseteq DOMAIN args.box_kwargs.val
    /\ {"dataset", "vert", "points"} \subseteq DOMAIN args.cloud_kwargs.val
    /\ args.vert = FALSE

----------------------------------------------------------------------------
(* C5 *)

\* An ordering value that is none of: absent, a mapping, the group column's
\* own name, a function.
InvalidOrdering ==
    /\ ~IsNone(args.group_order)
    /\ ~IsDict(args.group_order)
    /\ ~IsCallable(args.group_order)
    /\ ~PyEq(args.group_order, Str(group_col))

\* C5: every call whose ordering value is invalid fails with the ValueError
\* naming that value, with or without a group column; the value is never
\* silently ignored.
C5_InvalidOrderingRejected ==
    (pc # "extract" /\ InvalidOrdering) =>
        /\ pc = "raised"
        /\ err = ValueError("group_order arg not recognised as valid",
                            args.group_order)

----------------------------------------------------------------------------
(* C6 *)

\* C6: with a group column and reverse = False the labels are the distinct
\* categories ordered by the mode's key (none when ordering is absent, the
\* label itself, ordering[label], fn(series)), equal keys in first-seen
\* order; each data list holds the value-column entries of the rows of its
\* category in row order.
C6_StableOrderByKey ==
    (PastExtraction /\ Grouped /\ ~args.reverse) =>
        /\ Len(label_names) = Cardinality(Categories)
        /\ Range(label_names) = Categories
        /\ \A i, j \in DOMAIN label_names :
              i < j =>
                 \/ KeyOf(label_names[i]) < KeyOf(label_names[j])
                 \/ /\ KeyOf(label_names[i]) = KeyOf(label_names[j])
                    /\ FirstRow(label_names[i]) < FirstRow(label_names[j])
        /\ Len(plot_data) = Len(label_names)
        /\ \A i \in DOMAIN label_names : plot_data[i] = RowsOf(label_names[i])

\* Three groups sorted by a mapping: the order differs from the first-seen
\* order and two groups of equal key keep theirs.
C6_Witness ==
    /\ pc = "scale" /\ Grouped /\ ~args.reverse /\ IsDict(args.group_order)
    /\ Len(label_names) = 3
    /\ FirstRow(label_names[3]) = 1
    /\ KeyOf(label_names[1]) = KeyOf(label_names[2])

----------------------------------------------------------------------------
(* C7 *)

\* C7: past group extraction and scale resolution the labels, the data lists
\* and the scale factors have one length, and position i of each belongs to
\* one category: the data list is that category's rows and, under an explicit
\* scale mapping, the factor is map[label[i]]; without a group column the
\* one label is the value column's name and the data the whole column.
C7_Alignment ==
    PastScaling =>
        /\ Len(label_names) = Len(plot_data)
        /\ Len(plot_data) = Len(scalars)
        /\ IF Grouped
           THEN \A i \in DOMAIN label_names :
                    /\ label_names[i] \in Categories
                    /\ plot_data[i] = RowsOf(label_names[i])
           ELSE /\ label_names = <<"x">>
                /\ plot_data = <<[i \in DOMAIN args.df |-> args.df[i].x]>>
        /\ IsDict(args.scale_clouds) =>
              \A i \in DOMAIN label_names :
                  scalars[i] = args.scale_clouds.val[label_names[i]]

\* By-label ordering that moved the groups, scaled by a mapping that gives
\* the first two labels different factors.
C7_Witness ==
    /\ pc = "box" /\ Grouped /\ IsDict(args.scale_clouds)
    /\ PyEq(args.group_order, args.group_by)
    /\ Len(label_names) = 3
    /\ FirstRow(label_names[1]) # 1
    /\ scalars[1] # scalars[2]

----------------------------------------------------------------------------
(* C8 *)

\* The entries of an explicit scale mapping whose value is outside [0, 1].
OutOfRange == {k \in DOMAIN args.scale_clouds.val :
                  ~InUnitInterval(args.scale_clouds.val[k])}

OutOfRangeMsg == "Some scalar values are out of bounds."

\* The errors group extraction raises, ahead of the scale stage.
ExtractionError ==
    \/ err.type = "KeyError"
    \/ err.msg = "group_order arg not recognised as valid"

----------------------------------------------------------------------------
(* C9 *)

\* The size of the largest group.
LargestSize ==
    CHOOSE m \in {Len(plot_data[i]) : i \in DOMAIN plot_data} :
        \A i \in DOMAIN plot_data : Len(plot_data[i]) <= m

\* Data lists of the given sizes.
ListsOfSizes(sizes) == [i \in DOMAIN sizes |-> [k \in 1..sizes[i] |-> 0]]

----------------------------------------------------------------------------
(* C10 *)

\* C10: for both orientations the half-violin transform changes only the
\* coordinates on the density axis and leaves every vertex's coordinate on
\* the value axis unchanged.
C10_ValueAxisUnchanged ==
    \A k \in DOMAIN body.before :
        body.after[k][ValueAxis(args.vert)] = body.before[k][ValueAxis(args.vert)]


----------------------------------------------------------------------------
(* C11 *)

\* C11: for the group at zero-based position i with scale factor s and
\* baseline b = i + 1 the half-violin transform maps every density-axis
\* coordinate v of the group's body to b when v <= b (for any s) and to
\* b + s * (v - b) when v > b, each body with its own i and s, in
\* pyplot_cloud and pyplot_raincloud alike.
C11_DensityAxisMapping ==
    (pc \in {"loop", "returned"} /\ idx >= 1) =>
        \A k \in DOMAIN body.before :
            LET b == RInt(idx)
                s == scalars[idx]
                v == body.before[k][DensityAxis(args.vert)]
                w == body.after[k][DensityAxis(args.vert)]
            IN  IF RLeq(v, b) THEN w = b
                ELSE w = RAdd(b, RMul(s, RSub(v, b)))

====
